---- MODULE Spec2Model ----
(***************************************************************************)
(* Model of HabitTracker (src/project.py).                                 *)
(*                                                                         *)
(* self.habits is a dict with the two sub-dicts "habits" and "completions".*)
(* A Python dict is modelled as a sequence of entries [key, val] in        *)
(* insertion order with pairwise distinct keys.  Keys keep their Python    *)
(* type: add_habit makes int keys, json.load makes str keys, and the CLI   *)
(* passes str keys; the int 1 and the str "1" are different keys.          *)
(* A calendar date is a day number; its isoformat string sorts and         *)
(* compares like the day number, so a log is a sequence of day numbers.    *)
(***************************************************************************)
EXTENDS Integers, Sequences, FiniteSets, TLC

VARIABLES
    habits,       \* self.habits["habits"]: habit id -> Habit record
    completions,  \* self.habits["completions"]: habit id -> list of dates
    file,         \* the data file: <<>> while missing, else <<its document>>
    today,        \* datetime.now().date(), the same for every call in one step
    lastOp,       \* the call made last, with its argument and its outcome
    deleted       \* history: the ids delete_habit has removed (SpecHistory)

vars == <<habits, completions, file, today, lastOp, deleted>>

\* ----------------------------------------------------------------- bounds
MaxHabits == 2
MaxId == 2
MaxStrId == 1
MaxOrphans == 1
MaxDay == 2
StreakMaxDay == 7
StreakMaxLen == 4

\* ------------------------------------------------------------------- keys
IntKey(n) == [type |-> "int", n |-> n]
StrKey(n) == [type |-> "str", n |-> n]
NoKey == [type |-> "none", n |-> 0]

\* json.dump writes every dict key as a string: the int 1 becomes "1"
KeyToJson(k) == StrKey(k.n)

\* the habit ids a caller passes: ints as add_habit returns them, and the
\* digit strings the menu reads with input()
ArgKeys == {IntKey(n) : n \in 1..MaxId} \cup {StrKey(n) : n \in 1..MaxStrId}

\* the answers run() reads for a new habit (lines 248-251): name, category,
\* frequency and goal, the last two left blank
HabitInputs == {<<"run", "Health", "", "">>}

\* input("Frequency (daily/weekly): ") or "daily"
FrequencyInput(text) == IF text = "" THEN "daily" ELSE text

\* ------------------------------------------------------------ Python dict
Range(s) == {s[i] : i \in 1..Len(s)}

Keys(d) == {d[i].key : i \in 1..Len(d)}

HasKey(d, k) == k \in Keys(d)

Index(d, k) == CHOOSE i \in 1..Len(d) : d[i].key = k

\* d[k]
Get(d, k) == d[Index(d, k)].val

\* d[k] = v : an existing key keeps its position, a new key goes last
Put(d, k, v) ==
    IF HasKey(d, k)
    THEN [i \in 1..Len(d) |-> IF d[i].key = k THEN [key |-> k, val |-> v] ELSE d[i]]
    ELSE Append(d, [key |-> k, val |-> v])

\* del d[k]
Del(d, k) == SelectSeq(d, LAMBDA e : e.key # k)

\* ------------------------------------------------------------ persistence
\* json.dump of one sub-dict: entries in insertion order, keys stringified;
\* an int key and the str key of the same digits are both written
JsonDumpDict(d) == [i \in 1..Len(d) |-> [key |-> KeyToJson(d[i].key), val |-> d[i].val]]

RECURSIVE JsonLoadPairs(_, _, _)
\* json.load of one object: pairs are stored in order, a repeated key
\* overwrites the value stored before
JsonLoadPairs(pairs, i, acc) ==
    IF i > Len(pairs) THEN acc
    ELSE JsonLoadPairs(pairs, i + 1, Put(acc, pairs[i].key, pairs[i].val))

JsonLoadDict(pairs) == JsonLoadPairs(pairs, 1, <<>>)

JsonDump(h, c) == [habits |-> JsonDumpDict(h), completions |-> JsonDumpDict(c)]

JsonLoad(doc) == [habits |-> JsonLoadDict(doc.habits),
                  completions |-> JsonLoadDict(doc.completions)]

EmptyStore == [habits |-> <<>>, completions |-> <<>>]

\* file is <<>> while the data file does not exist, else <<document>>
load_data(f) == IF Len(f) > 0 THEN JsonLoad(f[1]) ELSE EmptyStore

save_data(h, c) == <<JsonDump(h, c)>>

\* ---------------------------------------------------------- streak engine
Max(a, b) == IF a >= b THEN a ELSE b

RECURSIVE Insert(_, _)
Insert(s, x) ==
    IF s = <<>> THEN <<x>>
    ELSE IF x < Head(s) THEN <<x>> \o s
    ELSE <<Head(s)>> \o Insert(Tail(s), x)

\* mutant: the log is scanned in the order it is stored
SortedAsStored(s) == s

RECURSIVE Sorted(_)
\* sorted(self.habits["completions"][habit_id])
Sorted(s) == IF s = <<>> THEN <<>> ELSE Insert(Sorted(Tail(s)), Head(s))

RECURSIVE CurrentWalk(_, _, _, _)
\* the backward loop of lines 79-85: i runs from the newest date down
CurrentWalk(comps, i, prev_date, current_streak) ==
    IF i = 0 THEN current_streak
    ELSE IF comps[i] = prev_date \/ comps[i] = prev_date - 1
         THEN CurrentWalk(comps, i - 1, comps[i], current_streak + 1)
         ELSE current_streak

\* mutant: the walk is anchored on the newest completion, not on today
CurrentStreakFromNewest(comps, now) ==
    IF comps = <<>> THEN 0 ELSE CurrentWalk(comps, Len(comps), comps[Len(comps)], 0)

CurrentStreak(comps, now) ==
    IF comps = <<>> THEN 0 ELSE CurrentWalk(comps, Len(comps), now, 0)

RECURSIVE LongestScan(_, _, _, _)
\* the forward loop of lines 89-97, without the closing max of line 99
LongestScan(comps, i, temp_streak, longest_streak) ==
    IF i > Len(comps) THEN [temp |-> temp_streak, longest |-> longest_streak]
    ELSE IF comps[i] - comps[i - 1] = 1
         THEN LongestScan(comps, i + 1, temp_streak + 1, longest_streak)
         ELSE LongestScan(comps, i + 1, 1, Max(longest_streak, temp_streak))

\* mutant: the closing max of line 99 is forgotten
LongestStreakNoClosingMax(comps) ==
    IF comps = <<>> THEN 0 ELSE LongestScan(comps, 2, 1, 0).longest

LongestStreak(comps) ==
    IF comps = <<>> THEN 0
    ELSE LET r == LongestScan(comps, 2, 1, 0) IN Max(r.longest, r.temp)

\* the two values update_streaks computes from a log and the clock
Streaks(log, now) ==
    LET comps == Sorted(log)
    IN [current_streak |-> CurrentStreak(comps, now),
        longest_streak |-> LongestStreak(comps)]

\* update_streaks(habit_id) on a habit record that exists
update_streaks(h, c, id, now) ==
    LET st == Streaks(Get(c, id), now)
    IN Put(h, id, [Get(h, id) EXCEPT !.current_streak = st.current_streak,
                                     !.longest_streak = st.longest_streak])

\* ------------------------------------------------------------- operations
\* An operation maps the store to [habits, completions, saved, ret, val]:
\* saved tells whether save_data() was reached, ret is the outcome and val
\* the habit id that add_habit returns.

NewHabit(name, category, frequency, goal, now) ==
    [name |-> name, category |-> category, frequency |-> frequency, goal |-> goal,
     created_date |-> now, current_streak |-> 0, longest_streak |-> 0]

\* habit_id = len(self.habits["habits"]) + 1
NextId(h) == IntKey(Len(h) + 1)

add_habit(h, c, name, category, frequency, goal, now) ==
    LET habit_id == NextId(h)
    IN [habits |-> Put(h, habit_id, NewHabit(name, category, frequency, goal, now)),
        completions |-> IF HasKey(c, habit_id) THEN c ELSE Put(c, habit_id, <<>>),
        saved |-> TRUE, ret |-> "id", val |-> habit_id]

\* mutant: the test of line 54 never fires
AlreadyCompletedNever(log, now) == FALSE

\* today in self.habits["completions"][habit_id]
AlreadyCompleted(log, now) == now \in Range(log)

\* mutant: update_streaks runs before today is appended
mark_complete_streaks_first(h, c, id, now) ==
    LET c1 == IF HasKey(c, id) THEN c ELSE Put(c, id, <<>>)
        c2 == Put(c1, id, Append(Get(c1, id), now))
    IN IF AlreadyCompleted(Get(c1, id), now)
       THEN [habits |-> h, completions |-> c1, saved |-> FALSE,
             ret |-> "False", val |-> NoKey]
       ELSE IF ~HasKey(h, id)
       THEN [habits |-> h, completions |-> c2, saved |-> FALSE,
             ret |-> "KeyError", val |-> NoKey]
       ELSE [habits |-> update_streaks(h, c1, id, now), completions |-> c2,
             saved |-> TRUE, ret |-> "True", val |-> NoKey]

mark_complete(h, c, id, now) ==
    LET c1 == IF HasKey(c, id) THEN c ELSE Put(c, id, <<>>)
        c2 == Put(c1, id, Append(Get(c1, id), now))
    IN IF AlreadyCompleted(Get(c1, id), now)
       THEN [habits |-> h, completions |-> c1, saved |-> FALSE,
             ret |-> "False", val |-> NoKey]
       ELSE IF ~HasKey(h, id)
       \* update_streaks raises KeyError at line 101: the log is already
       \* changed, save_data() is not reached
       THEN [habits |-> h, completions |-> c2, saved |-> FALSE,
             ret |-> "KeyError", val |-> NoKey]
       ELSE [habits |-> update_streaks(h, c2, id, now), completions |-> c2,
             saved |-> TRUE, ret |-> "True", val |-> NoKey]

\* mutant: the log entry is dropped before the habit is looked up
delete_habit_log_first(h, c, id) ==
    IF HasKey(h, id)
    THEN [habits |-> Del(h, id), completions |-> Del(c, id), saved |-> TRUE,
          ret |-> "Deleted", val |-> NoKey]
    ELSE [habits |-> h, completions |-> Del(c, id), saved |-> FALSE,
          ret |-> "NotFound", val |-> NoKey]

\* mutant: line 217 is missing, the log of the deleted habit stays
delete_habit_keeps_log(h, c, id) ==
    IF HasKey(h, id)
    THEN [habits |-> Del(h, id), completions |-> c, saved |-> TRUE,
          ret |-> "Deleted", val |-> NoKey]
    ELSE [habits |-> h, completions |-> c, saved |-> FALSE,
          ret |-> "NotFound", val |-> NoKey]

delete_habit(h, c, id) ==
    IF HasKey(h, id)
    THEN IF HasKey(c, id)
         THEN [habits |-> Del(h, id), completions |-> Del(c, id), saved |-> TRUE,
               ret |-> "Deleted", val |-> NoKey]
         \* del of a missing key raises KeyError after the habit is gone
         ELSE [habits |-> Del(h, id), completions |-> c, saved |-> FALSE,
               ret |-> "KeyError", val |-> NoKey]
    ELSE [habits |-> h, completions |-> c, saved |-> FALSE,
          ret |-> "NotFound", val |-> NoKey]

\* the list get_today_completions returns, in dict order
get_today_completions(c, now) ==
    LET hit == SelectSeq(c, LAMBDA e : now \in Range(e.val))
    IN [i \in 1..Len(hit) |-> hit[i].key]

Filters == {"None", "Health", "Learning"}

\* what view_habits prints per habit: the completed mark and both streaks
view_habits(h, c, now, filter_category) ==
    LET today_completions == Range(get_today_completions(c, now))
        kept == SelectSeq(h, LAMBDA e :
                    filter_category = "None" \/ e.val.category = filter_category)
    IN [i \in 1..Len(kept) |->
          [key |-> kept[i].key,
           completed |-> kept[i].key \in today_completions,
           current_streak |-> kept[i].val.current_streak,
           longest_streak |-> kept[i].val.longest_streak]]

\* today - timedelta(days=today.weekday()): day 0 is taken to be a Monday
week_start(now) == now - (now % 7)

\* week_dates of line 143
week_dates(now) == [i \in 1..7 |-> week_start(now) + (i - 1)]

\* the inner loop of lines 157-159: the logs that hold the date
day_completions(c, date) == Len(SelectSeq(c, LAMBDA e : date \in Range(e.val)))

\* ---------------------------------------------------------- Python float
\* A float other than 0 is [m, e]: m holds the 53 bits of its significand,
\* the first of them 1, and e is the exponent of that first bit, so the
\* value is 1.m[2]..m[53] x 2^e.  Long bit strings are worked on in limbs of
\* LimbBits bits; the ints that are divided stay below 2^22.
FloatBits == 53
LimbBits == 8
LimbBase == 2 ^ LimbBits
FloatZero == [m |-> <<>>, e |-> 0]

RECURSIVE BitsToInt(_)
BitsToInt(b) ==
    IF b = <<>> THEN 0 ELSE 2 * BitsToInt(SubSeq(b, 1, Len(b) - 1)) + b[Len(b)]

\* b without its leading zeros
Strip(b) ==
    IF \A i \in 1..Len(b) : b[i] = 0 THEN <<>>
    ELSE LET first == CHOOSE i \in 1..Len(b) :
                          b[i] = 1 /\ \A j \in 1..(i - 1) : b[j] = 0
         IN SubSeq(b, first, Len(b))

\* the limbs of a bit string, the first one filled up with zeros in front
Limbs(b) ==
    LET pad == (LimbBits - (Len(b) % LimbBits)) % LimbBits
        pb  == [i \in 1..pad |-> 0] \o b
    IN [j \in 1..(Len(pb) \div LimbBits) |->
           BitsToInt(SubSeq(pb, LimbBits * (j - 1) + 1, LimbBits * j))]

\* the bit string of a sequence of limbs
Unlimb(l) ==
    [i \in 1..(LimbBits * Len(l)) |->
        (l[((i - 1) \div LimbBits) + 1]
            \div (2 ^ (LimbBits - 1 - ((i - 1) % LimbBits)))) % 2]

\* b + 1, one bit longer when every bit of b is 1
IncBits(b) ==
    IF \A i \in 1..Len(b) : b[i] = 1 THEN <<1>> \o [i \in 1..Len(b) |-> 0]
    ELSE LET last == CHOOSE i \in 1..Len(b) :
                         b[i] = 0 /\ \A j \in (i + 1)..Len(b) : b[j] = 1
         IN [i \in 1..Len(b) |-> IF i < last THEN b[i]
                                  ELSE IF i = last THEN 1 ELSE 0]

\* round to nearest, ties to even: b holds at least FloatBits bits, the
\* first of them 1 with exponent e; sticky tells that more follows b
RoundNearestEven(b, e, sticky) ==
    LET keep == SubSeq(b, 1, FloatBits)
        tail == SubSeq(b, FloatBits + 1, Len(b))
        half == tail # <<>> /\ tail[1] = 1
        more == sticky \/ \E i \in 2..Len(tail) : tail[i] = 1
        up   == half /\ (more \/ keep[FloatBits] = 1)
        inc  == IncBits(keep)
    IN IF ~up THEN [m |-> keep, e |-> e]
       ELSE IF Len(inc) > FloatBits
            THEN [m |-> SubSeq(inc, 1, FloatBits), e |-> e + 1]
            ELSE [m |-> inc, e |-> e]

RECURSIVE Scale(_, _, _)
\* n, d and e with d <= n < 2d and a / b = (n / d) x 2^e
Scale(n, d, e) ==
    IF n < d THEN Scale(2 * n, d, e - 1)
    ELSE IF n >= 2 * d THEN Scale(n, 2 * d, e + 1)
    ELSE [n |-> n, d |-> d, e |-> e]

RECURSIVE LongDiv(_, _, _, _)
\* the next n limbs of r / d for r < d, and what is left of r
LongDiv(r, d, n, acc) ==
    IF n = 0 THEN [limbs |-> acc, rem |-> r]
    ELSE LongDiv((r * LimbBase) % d, d, n - 1,
                 Append(acc, (r * LimbBase) \div d))

\* a / b of two ints, a >= 0 and b > 0: the float nearest to the quotient
TrueDiv(a, b) ==
    IF a = 0 THEN FloatZero
    ELSE LET s == Scale(a, b, 0)
             q == LongDiv(s.n - s.d, s.d, (FloatBits \div LimbBits) + 1, <<>>)
         IN RoundNearestEven(<<1>> \o Unlimb(q.limbs), s.e, q.rem # 0)

RECURSIVE MulLimbs(_, _, _)
\* the limbs of l x n + carry, for n <= LimbBase
MulLimbs(l, n, carry) ==
    IF l = <<>> THEN <<carry>>
    ELSE LET v == l[Len(l)] * n + carry
         IN Append(MulLimbs(SubSeq(l, 1, Len(l) - 1), n, v \div LimbBase),
                   v % LimbBase)

\* the bits of b x n
MulBits(b, n) == Strip(Unlimb(MulLimbs(Limbs(b), n, 0)))

\* x * n of a float x and an int n >= 1: the float nearest to the product
FloatMul(x, n) ==
    IF x = FloatZero THEN FloatZero
    ELSE LET p == MulBits(x.m, n)
         IN RoundNearestEven(p, x.e + (Len(p) - FloatBits), FALSE)

\* the integer nearest to x * k, ties to even, of the exact value of x
RoundScaled(x, k) ==
    IF x = FloatZero THEN 0
    ELSE LET p     == MulBits(x.m, k)
             \* the bits of p in front of the binary point
             point == Len(p) - FloatBits + 1 + x.e
             whole == IF point > 0 THEN BitsToInt(SubSeq(p, 1, point)) ELSE 0
             frac  == IF point > 0 THEN SubSeq(p, point + 1, Len(p)) ELSE p
             half  == point >= 0 /\ frac # <<>> /\ frac[1] = 1
             more  == \E i \in 2..Len(frac) : frac[i] = 1
             up    == half /\ (more \/ whole % 2 = 1)
         IN whole + (IF up THEN 1 ELSE 0)

\* f"{x:.0f}" and f"{x:.1f}": the text of x with digits decimals
FormatF(x, digits) ==
    IF digits = 0 THEN ToString(RoundScaled(x, 1))
    ELSE LET n == RoundScaled(x, 10)
         IN ToString(n \div 10) \o "." \o ToString(n % 10)

\* (completed / total) * 100 if total > 0 else 0
percentage(completed, total) ==
    IF total > 0 THEN FloatMul(TrueDiv(completed, total), 100) ELSE FloatZero

\* what view_weekly_report prints per day of the week
view_weekly_report(h, c, now) ==
    [i \in 1..7 |->
        [date |-> week_dates(now)[i],
         completed |-> day_completions(c, week_dates(now)[i]),
         total |-> Len(h),
         \* {percentage:.0f} of line 174
         percentage |-> FormatF(percentage(day_completions(c, week_dates(now)[i]),
                                           Len(h)), 0)]]

RECURSIVE SumSeq(_)
SumSeq(s) == IF s = <<>> THEN 0 ELSE Head(s) + SumSeq(Tail(s))

\* week_completed = sum(daily_completions)
week_completed(rows) == SumSeq([i \in 1..Len(rows) |-> rows[i].completed])

\* week_possible = total_habits * 7
week_possible(h) == Len(h) * 7

RECURSIVE CategoryOrder(_, _)
\* the keys of category_stats in the order the loop of line 188 makes them
CategoryOrder(h, seen) ==
    IF h = <<>> THEN seen
    ELSE CategoryOrder(Tail(h),
            IF Head(h).val.category \in Range(seen) THEN seen
            ELSE Append(seen, Head(h).val.category))

RECURSIVE MaxSeq(_)
MaxSeq(s) == IF Len(s) = 1 THEN s[1] ELSE Max(s[1], MaxSeq(Tail(s)))

\* view_category_stats: line 196 looks every id of today's completions up
\* in the Habit collection and raises KeyError for one that is not there,
\* before anything is printed
view_category_stats(h, c, now) ==
    LET today_completions == get_today_completions(c, now)
        cats == CategoryOrder(h, <<>>)
        row(cat) ==
            LET mine == SelectSeq(h, LAMBDA e : e.val.category = cat)
                streaks == [i \in 1..Len(mine) |-> mine[i].val.current_streak]
                done == SelectSeq(today_completions,
                                  LAMBDA k : Get(h, k).category = cat)
            IN [category |-> cat, total |-> Len(mine), completed |-> Len(done),
                \* {completion_rate:.1f} of line 207
                percentage |-> FormatF(percentage(Len(done), Len(mine)), 1),
                \* {avg_streak:.1f} of line 208
                avg_streak |-> FormatF(TrueDiv(SumSeq(streaks), Len(streaks)), 1),
                best |-> MaxSeq(streaks)]
    IN IF \E i \in 1..Len(today_completions) : ~HasKey(h, today_completions[i])
       THEN [ret |-> "KeyError", shown |-> <<>>]
       ELSE [ret |-> "None", shown |-> [i \in 1..Len(cats) |-> row(cats[i])]]

\* ---------------------------------------------------------------- actions
Op(op, arg, filter, ret, val, ids, shown) ==
    [op |-> op, arg |-> arg, filter |-> filter, ret |-> ret, val |-> val,
     ids |-> ids, shown |-> shown]

Apply(r) ==
    /\ habits' = r.habits
    /\ completions' = r.completions
    /\ file' = IF r.saved THEN save_data(r.habits, r.completions) ELSE file

\* HabitTracker(): no data file yet
Init ==
    /\ habits = <<>>
    /\ completions = <<>>
    /\ file = <<>>
    /\ today = 0
    /\ lastOp = Op("init", NoKey, "None", "None", NoKey, <<>>, <<>>)
    /\ deleted = {}

AddHabit ==
    /\ Len(habits) < MaxHabits
    /\ \E in \in HabitInputs :
         LET r == add_habit(habits, completions, in[1], in[2],
                            FrequencyInput(in[3]), in[4], today)
         IN /\ Apply(r)
            /\ lastOp' = Op("add_habit", NoKey, "None", r.ret, r.val, <<>>, <<>>)
    /\ UNCHANGED <<today, deleted>>

\* log entries without a habit record
Orphans(h, c) == Keys(c) \ Keys(h)

MarkComplete ==
    /\ \E id \in ArgKeys :
         /\ \/ HasKey(completions, id)
            \/ Cardinality(Orphans(habits, completions)) < MaxOrphans
         /\ LET r == mark_complete(habits, completions, id, today)
            IN /\ Apply(r)
               /\ lastOp' = Op("mark_complete", id, "None", r.ret, r.val, <<>>, <<>>)
    /\ UNCHANGED <<today, deleted>>

DeleteStep(id) ==
    LET r == delete_habit(habits, completions, id)
    IN /\ Apply(r)
       /\ lastOp' = Op("delete_habit", id, "None", r.ret, r.val, <<>>, <<>>)

DeleteHabit ==
    /\ \E id \in ArgKeys : DeleteStep(id)
    /\ UNCHANGED <<today, deleted>>

\* delete_habit, with the ids it has removed so far kept in deleted
DeleteHabitRecorded ==
    /\ \E id \in ArgKeys :
         /\ DeleteStep(id)
         /\ deleted' = IF HasKey(habits, id) THEN deleted \cup {id} ELSE deleted
    /\ UNCHANGED today

GetTodayCompletions ==
    /\ lastOp' = Op("get_today_completions", NoKey, "None", "list", NoKey,
                    get_today_completions(completions, today), <<>>)
    /\ UNCHANGED <<habits, completions, file, today, deleted>>

\* mutant: view_habits recomputes every habit's streaks before it prints
ViewHabitsRefreshing ==
    /\ \E f \in Filters :
         lastOp' = Op("view_habits", NoKey, f, "None", NoKey, <<>>,
                      view_habits(habits, completions, today, f))
    /\ habits' = [i \in 1..Len(habits) |->
                     IF HasKey(completions, habits[i].key)
                     THEN [habits[i] EXCEPT
                             !.val.current_streak =
                                 Streaks(Get(completions, habits[i].key), today).current_streak]
                     ELSE habits[i]]
    /\ UNCHANGED <<completions, file, today, deleted>>

ViewHabits ==
    /\ \E f \in Filters :
         lastOp' = Op("view_habits", NoKey, f, "None", NoKey, <<>>,
                      view_habits(habits, completions, today, f))
    /\ UNCHANGED <<habits, completions, file, today, deleted>>

ViewWeeklyReport ==
    /\ lastOp' = Op("view_weekly_report", NoKey, "None", "None", NoKey, <<>>,
                    view_weekly_report(habits, completions, today))
    /\ UNCHANGED <<habits, completions, file, today, deleted>>

ViewCategoryStats ==
    /\ LET r == view_category_stats(habits, completions, today)
       IN lastOp' = Op("view_category_stats", NoKey, "None", r.ret, NoKey, <<>>, r.shown)
    /\ UNCHANGED <<habits, completions, file, today, deleted>>

\* the process exits and HabitTracker() is constructed again
Restart ==
    /\ LET st == load_data(file)
       IN /\ habits' = st.habits
          /\ completions' = st.completions
    /\ lastOp' = Op("load_data", NoKey, "None", "None", NoKey, <<>>, <<>>)
    /\ UNCHANGED <<file, today, deleted>>

\* midnight passes: datetime.now().date() is one day later
Tick ==
    /\ today < MaxDay
    /\ today' = today + 1
    /\ lastOp' = Op("tick", NoKey, "None", "None", NoKey, <<>>, <<>>)
    /\ UNCHANGED <<habits, completions, file, deleted>>

\* the store under every mutation, across restarts of the process
Next ==
    \/ AddHabit
    \/ MarkComplete
    \/ DeleteHabit
    \/ Restart
    \/ Tick

Spec == Init /\ [][Next]_vars

\* one session of the process, with the read operations
NextReads ==
    \/ AddHabit
    \/ MarkComplete
    \/ DeleteHabit
    \/ GetTodayCompletions
    \/ ViewHabits
    \/ ViewWeeklyReport
    \/ ViewCategoryStats
    \/ Tick

SpecReads == Init /\ [][NextReads]_vars

\* one session of the process, with the history of deleted ids
NextHistory ==
    \/ AddHabit
    \/ MarkComplete
    \/ DeleteHabitRecorded
    \/ Tick

SpecHistory == Init /\ [][NextHistory]_vars

\* ------------------------------------------- the streak engine on its own
StreakDays == 0..StreakMaxDay

\* the logs of at most StreakMaxLen pairwise different dates, in any order
StreakLogs ==
    {s \in UNION {[1..n -> StreakDays] : n \in 0..StreakMaxLen} :
        \A i, j \in 1..Len(s) : i # j => s[i] # s[j]}

StreakInit ==
    /\ today \in StreakDays
    /\ habits = <<[key |-> IntKey(1), val |-> NewHabit("run", "Health", "daily", "", 0)]>>
    /\ \E log \in StreakLogs : completions = <<[key |-> IntKey(1), val |-> log]>>
    /\ file = <<>>
    /\ lastOp = Op("init", NoKey, "None", "None", NoKey, <<>>, <<>>)
    /\ deleted = {}

\* self.update_streaks(habit_id)
UpdateStreaks ==
    /\ \E id \in Keys(habits) :
         /\ habits' = update_streaks(habits, completions, id, today)
         /\ lastOp' = Op("update_streaks", id, "None", "None", NoKey, <<>>, <<>>)
    /\ UNCHANGED <<completions, file, today, deleted>>

NextStreak == UpdateStreaks

SpecStreak == StreakInit /\ [][NextStreak]_vars

\* ----------------------------------------------------------------- claims
Store == [habits |-> habits, completions |-> completions]

StoreUnchanged == habits' = habits /\ completions' = completions /\ file' = file

\* C1: in every reachable state the ids with a Habit record are exactly the
\* ids with a CompletionLog entry.
C1_HabitIdsEqualLogIds == Keys(habits) = Keys(completions)

\* C2: the id add_habit allocates is never the id of a habit that is live
\* at the moment of the call.
C2_AllocatedIdNotLive ==
    [][lastOp'.op = "add_habit" => lastOp'.val \notin Keys(habits)]_vars

\* C3: mark_complete with an id that has no Habit record ends with NotFound
\* and leaves habits, logs and the data file as they were.
C3_MarkUnknownIsNotFound ==
    [][(lastOp'.op = "mark_complete" /\ ~HasKey(habits, lastOp'.arg))
         => (lastOp'.ret = "NotFound" /\ StoreUnchanged)]_vars

\* the date of the last mutation of a non-empty log: line 58 appends today
\* and nothing else changes a log, so it is the date appended last
LastMutation(log) == log[Len(log)]

DerivedStreaks(log) ==
    IF log = <<>> THEN [current_streak |-> 0, longest_streak |-> 0]
    ELSE Streaks(log, LastMutation(log))

\* C4: each live habit's stored streaks are the streak computation of its
\* log as of the log's last mutation (0 and 0 for an empty log).
C4_StoredStreaksDerivable ==
    \A i \in 1..Len(habits) :
        /\ HasKey(completions, habits[i].key)
        /\ LET d == DerivedStreaks(Get(completions, habits[i].key))
           IN /\ habits[i].val.current_streak = d.current_streak
              /\ habits[i].val.longest_streak = d.longest_streak

\* C5: for every duplicate-free log (dates after today included) and every
\* today, update_streaks leaves longest_streak >= current_streak.
C5_LongestAtLeastCurrent ==
    lastOp.op = "update_streaks" =>
        \A i \in 1..Len(habits) :
            habits[i].val.longest_streak >= habits[i].val.current_streak

C5_Witness ==
    /\ lastOp.op = "update_streaks"
    /\ \E d \in Range(Get(completions, lastOp.arg)) : d > today
    /\ \E d \in Range(Get(completions, lastOp.arg)) : d = today
    /\ Get(habits, lastOp.arg).longest_streak >= 2

NewestDate(log) == CHOOSE d \in Range(log) : \A e \in Range(log) : e <= d

\* C6: once a habit's newest completion is older than yesterday, the
\* current streak that view_habits shows for it is 0.
C6_MissedDayShowsZero ==
    lastOp.op = "view_habits" =>
        \A i \in 1..Len(lastOp.shown) :
            LET row == lastOp.shown[i]
            IN (/\ HasKey(completions, row.key)
                /\ Get(completions, row.key) # <<>>
                /\ NewestDate(Get(completions, row.key)) < today - 1)
               => row.current_streak = 0

\* C7: saving the store and loading it back yields the same store, with
\* the same keys, Habit fields and completion dates.
C7_SaveLoadRoundTrip == load_data(save_data(habits, completions)) = Store

NoDuplicateDates ==
    \A i \in 1..Len(completions) :
        \A a, b \in 1..Len(completions[i].val) :
            a # b => completions[i].val[a] # completions[i].val[b]

\* C8: mark_complete on a live habit whose log already holds today returns
\* False and changes nothing; no log ever holds a date twice.
C8_SecondMarkRejected ==
    /\ []NoDuplicateDates
    /\ [][(/\ lastOp'.op = "mark_complete"
           /\ HasKey(habits, lastOp'.arg)
           /\ HasKey(completions, lastOp'.arg)
           /\ today \in Range(Get(completions, lastOp'.arg)))
          => (lastOp'.ret = "False" /\ StoreUnchanged)]_vars

C8_Witness ==
    /\ lastOp.op = "mark_complete"
    /\ lastOp.ret = "False"
    /\ HasKey(habits, lastOp.arg)
    /\ today \in Range(Get(completions, lastOp.arg))
    /\ Len(Get(completions, lastOp.arg)) >= 2
    /\ Len(habits) >= 2

\* C9: delete_habit with an id that has no Habit record reports NotFound
\* and leaves habits, logs and the data file as they were.
C9_DeleteUnknownIsNotFound ==
    [][(lastOp'.op = "delete_habit" /\ ~HasKey(habits, lastOp'.arg))
         => (lastOp'.ret = "NotFound" /\ StoreUnchanged)]_vars

C9_Witness ==
    /\ lastOp.op = "delete_habit"
    /\ lastOp.ret = "NotFound"
    /\ ~HasKey(habits, lastOp.arg)
    /\ HasKey(completions, lastOp.arg)
    /\ habits # <<>>

\* C10: an id that delete_habit has removed is never allocated by a later
\* add_habit.
C10_DeletedIdNotReused ==
    lastOp.op = "add_habit" => lastOp.val \notin deleted

\* C11: no operation ends with an unhandled error: each one finishes with
\* an explicit outcome.
C11_NoUnhandledError == lastOp.ret # "KeyError"

\* the number of consecutive calendar days of a date set that end at d
RunEndingAt(dates, d) ==
    Cardinality({e \in dates : e <= d /\ \A x \in e..d : x \in dates})

\* the reference current streak of a date set
RefCurrent(dates, now) ==
    IF dates = {} THEN 0
    ELSE LET newest == CHOOSE d \in dates : \A e \in dates : e <= d
         IN IF newest # now /\ newest # now - 1 THEN 0
            ELSE RunEndingAt(dates, newest)

\* the reference longest streak of a date set
RefLongest(dates) ==
    IF dates = {} THEN 0
    ELSE LET best == CHOOSE d \in dates :
                        \A e \in dates : RunEndingAt(dates, e) <= RunEndingAt(dates, d)
         IN RunEndingAt(dates, best)

\* C12: the computed current_streak is 0 for an empty log or a newest date
\* that is neither today nor yesterday, else the length of the run of
\* consecutive days that ends at the newest date.
C12_CurrentStreakIsReference ==
    lastOp.op = "update_streaks" =>
        Get(habits, lastOp.arg).current_streak
            = RefCurrent(Range(Get(completions, lastOp.arg)), today)

\* scenario B: {today, day-5, day-6, day-7} gives current_streak 1
C12_Witness ==
    /\ lastOp.op = "update_streaks"
    /\ Range(Get(completions, lastOp.arg)) = {today, today - 5, today - 6, today - 7}
    /\ Get(habits, lastOp.arg).current_streak = 1

\* C13: the computed longest_streak is the longest run of consecutive days
\* in the log, whatever today is and in whatever order the dates are stored.
C13_LongestStreakIsReference ==
    lastOp.op = "update_streaks" =>
        Get(habits, lastOp.arg).longest_streak
            = RefLongest(Range(Get(completions, lastOp.arg)))

\* scenario B stored out of order, read on a day that is not in the log
C13_Witness ==
    /\ lastOp.op = "update_streaks"
    /\ Get(completions, lastOp.arg) = <<6, 0, 7, 5>>
    /\ today = 2
    /\ Get(habits, lastOp.arg).longest_streak = 3

\* C14: right after add_habit returns k, habit k exists with both streaks 0
\* and an empty log.
C14_NewHabitStartsEmpty ==
    lastOp.op = "add_habit" =>
        /\ HasKey(habits, lastOp.val)
        /\ Get(habits, lastOp.val).current_streak = 0
        /\ Get(habits, lastOp.val).longest_streak = 0
        /\ HasKey(completions, lastOp.val)
        /\ Get(completions, lastOp.val) = <<>>

\* habit k has the same record and the same log before and after the step
SameHabit(k) ==
    /\ HasKey(habits', k)
    /\ Get(habits', k) = Get(habits, k)
    /\ HasKey(completions, k) = HasKey(completions', k)
    /\ HasKey(completions, k) => Get(completions', k) = Get(completions, k)

\* C15: add_habit leaves every habit that was live unchanged and makes the
\* number of live habits one larger.
C15_AddKeepsLiveHabits ==
    [][lastOp'.op = "add_habit"
         => /\ Len(habits') = Len(habits) + 1
            /\ \A k \in Keys(habits) : SameHabit(k)]_vars

\* the log of k, empty when k has no entry
LogOf(c, k) == IF HasKey(c, k) THEN Get(c, k) ELSE <<>>

\* C16: mark_complete on a live habit k whose log lacks today returns True,
\* adds exactly today to k's log, stores the streaks of the new log, leaves
\* every other record and log alone, and k is among today's completions.
C16_MarkCompleteEffect ==
    [][(/\ lastOp'.op = "mark_complete"
        /\ HasKey(habits, lastOp'.arg)
        /\ today \notin Range(LogOf(completions, lastOp'.arg)))
       => LET k == lastOp'.arg
              old == LogOf(completions, k)
              new == LogOf(completions', k)
          IN /\ lastOp'.ret = "True"
             /\ Len(new) = Len(old) + 1
             /\ Range(new) = Range(old) \cup {today}
             /\ Keys(habits') = Keys(habits)
             /\ Get(habits', k).current_streak = RefCurrent(Range(new), today)
             /\ Get(habits', k).longest_streak = RefLongest(Range(new))
             /\ [Get(habits', k) EXCEPT
                    !.current_streak = Get(habits, k).current_streak,
                    !.longest_streak = Get(habits, k).longest_streak] = Get(habits, k)
             /\ \A j \in Keys(habits) \ {k} : Get(habits', j) = Get(habits, j)
             /\ Keys(completions') = Keys(completions) \cup {k}
             /\ \A j \in Keys(completions) \ {k} :
                    Get(completions', j) = Get(completions, j)
             /\ k \in Range(get_today_completions(completions', today))]_vars

C16_Witness ==
    /\ lastOp.op = "mark_complete"
    /\ lastOp.ret = "True"
    /\ Get(completions, lastOp.arg) = <<today - 1, today>>
    /\ Get(habits, lastOp.arg).current_streak = 2
    /\ \E j \in Keys(habits) \ {lastOp.arg} : Get(completions, j) # <<>>

\* C17: delete_habit on a live habit k removes k's record and k's log in
\* the same step and leaves every other record and log alone.
C17_DeleteRemovesBoth ==
    [][(lastOp'.op = "delete_habit" /\ HasKey(habits, lastOp'.arg))
       => LET k == lastOp'.arg
          IN /\ lastOp'.ret = "Deleted"
             /\ Keys(habits') = Keys(habits) \ {k}
             /\ Keys(completions') = Keys(completions) \ {k}
             /\ \A j \in Keys(habits) \ {k} : Get(habits', j) = Get(habits, j)
             /\ \A j \in Keys(completions) \ {k} :
                    Get(completions', j) = Get(completions, j)]_vars

C17_Witness ==
    /\ lastOp.op = "delete_habit"
    /\ lastOp.ret = "Deleted"
    /\ ~HasKey(habits, lastOp.arg)
    /\ ~HasKey(completions, lastOp.arg)
    /\ \E j \in Keys(habits) : Get(completions, j) # <<>>
    /\ Orphans(habits, completions) # {}

\* the live habits whose log holds the date
HabitsCompletedOn(date) ==
    {k \in Keys(habits) : date \in Range(LogOf(completions, k))}

\* C18: each daily count of the weekly report is the number of live habits
\* whose log holds that date; so it is at most the habit count, the
\* percentage printed is one of 0..100 and the week total at most habit count x 7.
C18_WeeklyCountsLiveHabits ==
    lastOp.op = "view_weekly_report" =>
        /\ \A i \in 1..7 :
              /\ lastOp.shown[i].date = week_start(today) + (i - 1)
              /\ lastOp.shown[i].completed
                    = Cardinality(HabitsCompletedOn(lastOp.shown[i].date))
              /\ lastOp.shown[i].completed <= Len(habits)
              /\ lastOp.shown[i].percentage \in {ToString(n) : n \in 0..100}
        /\ week_completed(lastOp.shown) <= week_possible(habits)

\* what a reader of the data file gets
Persisted == load_data(file)

\* what a reader would get had the in-memory store just been written
InMemory == load_data(save_data(habits, completions))

\* C19: when add_habit, mark_complete or delete_habit has ended, the data
\* file holds the habits and completions of the in-memory store.
C19_FileHoldsStore ==
    lastOp.op \in {"add_habit", "mark_complete", "delete_habit"} =>
        Persisted = InMemory

ReadOps == {"get_today_completions", "view_habits", "view_weekly_report",
            "view_category_stats"}

\* C20: the read operations leave every Habit record, streak field and log
\* as it was.
C20_ReadsChangeNothing ==
    [][lastOp'.op \in ReadOps => StoreUnchanged]_vars

C20_Witness ==
    /\ lastOp.op = "view_habits"
    /\ \E i \in 1..Len(lastOp.shown) :
          /\ lastOp.shown[i].current_streak > 0
          /\ NewestDate(Get(completions, lastOp.shown[i].key)) < today - 1

====
